---- MODULE Spec2Model ----
(***************************************************************************)
(* A model of a2docstore's webserver.py: the docs table (SQLite through    *)
(* SQLAlchemy), the storage/docs directory tree, the browser's signed      *)
(* 'authorized' cookie, and one action per request handler.                *)
(*                                                                         *)
(* Text is a sequence of one-character strings, so that LIKE patterns,     *)
(* path separators and str()/int() conversions are computed, not assumed.  *)
(* A request argument is a list of values as in tornado's                  *)
(* request.arguments: <<>> when the argument is absent, <<v>> when given.  *)
(***************************************************************************)
EXTENDS Integers, Sequences, FiniteSets, TLC

VARIABLES rows, dirs, files, authorized, today, last, assigned, deleted

vars == <<rows, dirs, files, authorized, today, last, assigned, deleted>>

\* ---------------------------------------------------------------- bounds
MaxId == 2
MaxDate == 2

\* ------------------------------------------------------- text primitives
None == <<"None">>

Digits == <<"0", "1", "2", "3", "4", "5", "6", "7", "8", "9">>

IsDigit(c) == \E i \in 1..10 : Digits[i] = c

DigitVal(c) == (CHOOSE i \in 1..10 : Digits[i] = c) - 1

Front(s) == SubSeq(s, 1, Len(s) - 1)

RECURSIVE Str(_)
\* str(document_id) of a non-negative integer
Str(n) == IF n < 10 THEN <<Digits[n + 1]>>
          ELSE Append(Str(n \div 10), Digits[(n % 10) + 1])

RECURSIVE IntOf(_)
\* the value of a non-empty all-digit text
IntOf(s) == IF Len(s) = 1 THEN DigitVal(s[1])
            ELSE 10 * IntOf(Front(s)) + DigitVal(s[Len(s)])

AllDigits(s) == Len(s) > 0 /\ \A i \in 1..Len(s) : IsDigit(s[i])

\* DocModel.id == text : the column has INTEGER affinity, so SQLite converts
\* a text operand that looks like an integer and compares numbers; any other
\* text is never equal to an integer.
SqlIdEq(id, text) == AllDigits(text) /\ IntOf(text) = id

RECURSIVE Split(_, _)
\* text.split(sep): the pieces between occurrences of the character sep
Split(s, sep) ==
    IF \A i \in 1..Len(s) : s[i] # sep THEN <<s>>
    ELSE LET k == CHOOSE i \in 1..Len(s) :
                      s[i] = sep /\ \A j \in 1..(i - 1) : s[j] # sep
         IN <<SubSeq(s, 1, k - 1)>> \o Split(SubSeq(s, k + 1, Len(s)), sep)

Upper == <<"A", "B">>
Lower == <<"a", "b">>

\* ASCII case folding as SQLite's LIKE applies it
Fold(c) == IF \E i \in 1..Len(Upper) : Upper[i] = c
           THEN Lower[CHOOSE i \in 1..Len(Upper) : Upper[i] = c]
           ELSE c

RECURSIVE Like(_, _)
\* text LIKE pattern in SQLite: % matches any run of characters, _ matches
\* exactly one character, letters compare without regard to ASCII case
Like(p, t) ==
    IF p = <<>> THEN t = <<>>
    ELSE IF Head(p) = "%"
         THEN Like(Tail(p), t) \/ (t # <<>> /\ Like(p, Tail(t)))
         ELSE /\ t # <<>>
              /\ (Head(p) = "_" \/ Fold(Head(p)) = Fold(Head(t)))
              /\ Like(Tail(p), Tail(t))

\* column.like('%%%s%%' % query_arg); LIKE on NULL is not true
LikeContains(field, q) ==
    field # None /\ Like(<<"%">> \o q \o <<"%">>, field)

\* ------------------------------------------------------------ file system
\* A path is a sequence of components below stored_docs_path; <<>> is
\* stored_docs_path itself.  dirs is the set of directories, files maps the
\* path of each regular file to its contents.
NoPath == [ok |-> FALSE, path |-> <<>>]

RECURSIVE Walk(_, _, _)
\* POSIX path resolution from directory cur through the components comps
Walk(d, cur, comps) ==
    IF comps = <<>> THEN [ok |-> TRUE, path |-> cur]
    ELSE IF cur \notin d THEN NoPath
    ELSE LET c == Head(comps) IN
         IF c = <<>> \/ c = <<".">> THEN Walk(d, cur, Tail(comps))
         ELSE IF c = <<".", ".">>
              THEN IF cur = <<>> THEN NoPath
                   ELSE Walk(d, Front(cur), Tail(comps))
              ELSE Walk(d, Append(cur, c), Tail(comps))

\* os.path.join(stored_docs_path, str(doc_id), filename) as components
JoinPath(idText, filename) == <<idText>> \o Split(filename, "/")

\* os.path.dirname: everything before the last separator
Dirname(comps) == Front(comps)

\* os.path.exists(path)
PathExists(d, f, comps) ==
    LET r == Walk(d, <<>>, comps)
    IN r.ok /\ (r.path \in d \/ r.path \in DOMAIN f)

\* os.mkdir(path): the parent must resolve to a directory and the target
\* must not exist
MkdirOk(d, f, comps) ==
    LET r == Walk(d, <<>>, comps)
    IN /\ comps # <<>>
       /\ Walk(d, <<>>, Front(comps)).ok
       /\ Walk(d, <<>>, Front(comps)).path \in d
       /\ r.ok /\ r.path \notin d /\ r.path \notin DOMAIN f

\* open(path, 'w'): the parent is a directory and the target is not one
OpenWriteOk(d, f, comps) ==
    LET r == Walk(d, <<>>, comps)
        p == Walk(d, <<>>, Front(comps))
    IN comps # <<>> /\ p.ok /\ p.path \in d /\ r.ok /\ r.path \notin d

\* open(path, 'r'): the target is a regular file
OpenReadOk(d, f, comps) ==
    LET r == Walk(d, <<>>, comps) IN r.ok /\ r.path \in DOMAIN f

IsPrefix(p, q) == Len(p) <= Len(q) /\ SubSeq(q, 1, Len(p)) = p

\* shutil.rmtree(path) succeeds on an existing directory
RmtreeOk(d, comps) ==
    LET r == Walk(d, <<>>, comps) IN r.ok /\ r.path # <<>> /\ r.path \in d

RmtreeDirs(d, comps) ==
    {q \in d : ~IsPrefix(Walk(d, <<>>, comps).path, q)}

RmtreeFiles(d, f, comps) ==
    [q \in {x \in DOMAIN f : ~IsPrefix(Walk(d, <<>>, comps).path, x)} |-> f[q]]

\* ----------------------------------------------------------------- dates
\* datetime.strptime(value, '%m/%d/%Y').date(): the parsed date, or
\* ValueError for text in another format
StrptimeOk(s) == s = "01/02/2020" \/ s = "12/31/2021"

Strptime(s) == IF s = "01/02/2020" THEN "2020-01-02" ELSE "2021-12-31"

\* --------------------------------------------------------------- catalog
Max(S) == CHOOSE x \in S : \A y \in S : y <= x

\* The id SQLite gives the inserted row: id is INTEGER PRIMARY KEY without
\* AUTOINCREMENT, an alias of the rowid, which is one more than the largest
\* rowid in the table (1 for an empty table).
NextId(r) == IF DOMAIN r = {} THEN 1 ELSE Max(DOMAIN r) + 1

\* session.query(DocModel).filter(DocModel.id == text): the matching ids
MatchIds(r, text) == {i \in DOMAIN r : SqlIdEq(i, text)}

Insert(r, id, row) == [i \in DOMAIN r \cup {id} |-> IF i = id THEN row ELSE r[i]]

Remove(r, id) == [i \in DOMAIN r \ {id} |-> r[i]]

\* get_argument(name): the last value given
Given(arg) == arg # <<>>
Arg(arg) == arg[Len(arg)]


\* -------------------------------------------------------------- requests
Anonymous == <<"a", "n", "o", "n", "y", "m", "o", "u", "s">>

AnonymousEmail ==
    Anonymous \o <<"@", "e", "x", "a", "m", "p", "l", "e", ".", "c", "o", "m">>

Password == <<"p", "w">>

PageLimit == 20

PlainName == <<"a", ".", "p">>
SlashName == <<"s", "/", "a">>

BaseAdd ==
    [xsrf |-> TRUE,
     doc_title |-> << <<"A", "b">> >>,
     doc_description |-> << <<"d">> >>,
     source_org |-> << <<"o">> >>,
     file |-> << [filename |-> PlainName, body |-> "x"] >>,
     tracking_number |-> <<>>,
     date_requested |-> <<"01/02/2020">>,
     date_received |-> <<"">>,
     uploader_name |-> << <<>> >>,
     uploader_email |-> << <<>> >>]

AddRequests ==
    {BaseAdd,
     [BaseAdd EXCEPT !.xsrf = FALSE],
     [BaseAdd EXCEPT !.doc_title = <<>>],
     [BaseAdd EXCEPT !.doc_description = <<>>],
     [BaseAdd EXCEPT !.source_org = <<>>],
     [BaseAdd EXCEPT !.file = <<>>],
     [BaseAdd EXCEPT !.uploader_name = <<>>],
     [BaseAdd EXCEPT !.date_requested = <<"2020-01-02">>],
     [BaseAdd EXCEPT !.file = << [filename |-> SlashName, body |-> "y"] >>]}

BaseEdit ==
    [xsrf |-> TRUE,
     doc_title |-> << <<"B">> >>,
     doc_description |-> << <<"d">> >>,
     source_org |-> << <<"o">> >>,
     tracking_number |-> << <<"7">> >>,
     date_requested |-> <<"">>,
     date_received |-> <<"12/31/2021">>,
     uploader_name |-> << <<"u">> >>,
     uploader_email |-> << <<"e">> >>]

EditRequests ==
    {BaseEdit,
     [BaseEdit EXCEPT !.xsrf = FALSE],
     [BaseEdit EXCEPT !.uploader_email = <<>>],
     [BaseEdit EXCEPT !.date_received = <<"31/12/2021">>]}

\* the ([0-9]+) group of /view/, /file/ and /edit/ URLs
UrlIds == {Str(i) : i \in 1..MaxId}

DeleteRequests ==
    {[xsrf |-> FALSE, doc_id |-> <<Str(1)>>]}
    \cup {[xsrf |-> TRUE, doc_id |-> d] :
             d \in {<<>>, << <<>> >>, << Str(1) \o <<"/">> >>}
                   \cup {<<t>> : t \in UrlIds}}

DownloadNames == {PlainName}

SearchRequests ==
    {[query |-> <<>>, offset |-> <<>>],
     [query |-> << <<"a">> >>, offset |-> <<>>],
     [query |-> << <<"_">> >>, offset |-> <<>>],
     [query |-> <<>>, offset |-> << <<"1">> >>],
     [query |-> <<>>, offset |-> << <<"x">> >>]}

AuthRequests ==
    {[log_out |-> << <<"1">> >>, header |-> <<>>],
     [log_out |-> <<>>, header |-> <<>>],
     [log_out |-> <<>>, header |-> << <<"u", ":"  >> \o Password >>],
     [log_out |-> <<>>, header |-> << <<"u", ":", "n", "o">> >>],
     [log_out |-> <<>>, header |-> << <<"u", ":", "a", ":", "b">> >>]}

\* ------------------------------------------------------------------ Init
NoRequest == [op |-> "none", status |-> 0]

Init ==
    /\ rows = [i \in {} |-> 0]
    /\ dirs = {<<>>}
    /\ files = [p \in {} |-> ""]
    /\ authorized = FALSE
    /\ today = 1
    /\ last = NoRequest
    /\ assigned = {}
    /\ deleted = {}

\* ------------------------------------------------------- AddHandler.post
DateArgBad(arg) == Given(arg) /\ Arg(arg) # "" /\ ~StrptimeOk(Arg(arg))

DateArgValue(arg) ==
    IF Given(arg) /\ Arg(arg) # "" THEN Strptime(Arg(arg)) ELSE "None"

NewDoc(r, now) ==
    [doc_title |-> Arg(r.doc_title),
     doc_description |-> Arg(r.doc_description),
     source_org |-> Arg(r.source_org),
     tracking_number |->
         IF Given(r.tracking_number) THEN Arg(r.tracking_number) ELSE None,
     date_requested |-> DateArgValue(r.date_requested),
     date_received |-> DateArgValue(r.date_received),
     uploader_name |->
         IF Arg(r.uploader_name) # <<>> THEN Arg(r.uploader_name) ELSE Anonymous,
     uploader_email |->
         IF Arg(r.uploader_email) # <<>> THEN Arg(r.uploader_email)
         ELSE AnonymousEmail,
     date_uploaded |-> now,
     filename |-> r.file[1].filename]

AddOutcome(r) ==
    LET Rejected(s) == [status |-> s, rows |-> rows, dirs |-> dirs,
                        files |-> files, id |-> 0]
    IN
    IF ~r.xsrf THEN Rejected(403)
    ELSE IF ~Given(r.doc_title) \/ ~Given(r.doc_description)
            \/ ~Given(r.source_org) THEN Rejected(400)
    ELSE IF r.file = <<>> THEN Rejected(400)
    ELSE IF DateArgBad(r.date_requested) \/ DateArgBad(r.date_received)
         THEN Rejected(500)
    ELSE IF ~Given(r.uploader_name) \/ ~Given(r.uploader_email)
         THEN Rejected(400)
    ELSE
      LET id == NextId(rows)
          rows1 == Insert(rows, id, NewDoc(r, today))
          path == JoinPath(Str(id), r.file[1].filename)
      IN
      IF ~MkdirOk(dirs, files, Dirname(path))
      THEN [status |-> 500, rows |-> rows1, dirs |-> dirs, files |-> files,
            id |-> id]
      ELSE
        LET dirs1 == dirs \cup {Walk(dirs, <<>>, Dirname(path)).path} IN
        IF ~OpenWriteOk(dirs1, files, path)
        THEN [status |-> 500, rows |-> rows1, dirs |-> dirs1,
              files |-> files, id |-> id]
        ELSE
          LET target == Walk(dirs1, <<>>, path).path IN
          [status |-> 302, rows |-> rows1, dirs |-> dirs1,
           files |-> [p \in DOMAIN files \cup {target} |->
                        IF p = target THEN r.file[1].body ELSE files[p]],
           id |-> id]

AddPost(r) ==
    /\ NextId(rows) <= MaxId
    /\ LET o == AddOutcome(r) IN
       /\ rows' = o.rows
       /\ dirs' = o.dirs
       /\ files' = o.files
       /\ last' = [op |-> "AddPost", req |-> r, status |-> o.status,
                   id |-> o.id]
       /\ assigned' = IF o.id = 0 THEN assigned ELSE assigned \cup {o.id}
       /\ deleted' = deleted \ {o.id}
    /\ UNCHANGED <<authorized, today>>

\* -------------------------------------------------------- ViewHandler.get
\* .one() raises NoResultFound when no row matches; nothing catches it, so
\* tornado answers 500
ViewOutcome(r, idText) ==
    LET m == MatchIds(r, idText) IN
    IF Cardinality(m) = 1
    THEN [status |-> 200, doc |-> <<r[CHOOSE i \in m : TRUE]>>]
    ELSE [status |-> 500, doc |-> <<>>]

ViewGet(idText) ==
    /\ LET o == ViewOutcome(rows, idText) IN
       last' = [op |-> "ViewGet", id |-> idText, status |-> o.status,
                doc |-> o.doc]
    /\ UNCHANGED <<rows, dirs, files, authorized, today, assigned, deleted>>

\* ---------------------------------------------------- DownloadHandler.get
\* set404: the handler set status 404 because the path does not exist;
\* opened: it went on to open(file_path, 'r'), which it does on every path
\* through the code.  A failed open is an IOError that nothing catches:
\* tornado drops what was written and answers 500.
DownloadOutcome(d, f, idText, filename) ==
    LET path == JoinPath(idText, filename)
        missing == ~PathExists(d, f, path)
        readable == OpenReadOk(d, f, path)
    IN [set404 |-> missing,
        opened |-> TRUE,
        status |-> IF ~readable THEN 500 ELSE IF missing THEN 404 ELSE 200,
        body |-> IF readable THEN <<f[Walk(d, <<>>, path).path]>> ELSE <<>>]

DownloadGet(idText, filename) ==
    /\ LET o == DownloadOutcome(dirs, files, idText, filename) IN
       last' = [op |-> "DownloadGet", id |-> idText, filename |-> filename,
                set404 |-> o.set404, opened |-> o.opened,
                status |-> o.status, body |-> o.body]
    /\ UNCHANGED <<rows, dirs, files, authorized, today, assigned, deleted>>

\* --------------------------------------------------------- EditHandler.get
EditGet(idText) ==
    /\ LET m == MatchIds(rows, idText) IN
       last' = IF ~authorized
               THEN [op |-> "EditGet", id |-> idText, auth |-> authorized,
                     status |-> 400]
               ELSE IF Cardinality(m) # 1
               THEN [op |-> "EditGet", id |-> idText, auth |-> authorized,
                     status |-> 500]
               ELSE [op |-> "EditGet", id |-> idText, auth |-> authorized,
                     status |-> 200]
    /\ UNCHANGED <<rows, dirs, files, authorized, today, assigned, deleted>>

\* -------------------------------------------------------- EditHandler.post
EditProperties ==
    <<"doc_title", "doc_description", "source_org", "tracking_number",
      "date_requested", "date_received", "uploader_name", "uploader_email">>

IsDateProperty(name) == name = "date_requested" \/ name = "date_received"

\* the value setattr stores for one property
EditValue(r, name) ==
    IF IsDateProperty(name) THEN DateArgValue(r[name]) ELSE Arg(r[name])

\* the status the property loop ends with: 0 when every property was set,
\* 400 at the first absent argument, 500 at the first unparsable date
RECURSIVE EditLoop(_, _)
EditLoop(r, k) ==
    IF k > Len(EditProperties) THEN 0
    ELSE IF ~Given(r[EditProperties[k]]) THEN 400
    ELSE IF IsDateProperty(EditProperties[k]) /\ DateArgBad(r[EditProperties[k]])
         THEN 500
    ELSE EditLoop(r, k + 1)

\* EditedDoc as it would be if the handler stamped the row the way
\* AddHandler.post does under "Set metadata"
EditedDocRestamped(doc, r) ==
    [doc EXCEPT !.doc_title = EditValue(r, "doc_title"),
                !.doc_description = EditValue(r, "doc_description"),
                !.source_org = EditValue(r, "source_org"),
                !.tracking_number = EditValue(r, "tracking_number"),
                !.date_requested = EditValue(r, "date_requested"),
                !.date_received = EditValue(r, "date_received"),
                !.uploader_name = EditValue(r, "uploader_name"),
                !.uploader_email = EditValue(r, "uploader_email"),
                !.date_uploaded = today]

EditedDoc(doc, r) ==
    [doc EXCEPT !.doc_title = EditValue(r, "doc_title"),
                !.doc_description = EditValue(r, "doc_description"),
                !.source_org = EditValue(r, "source_org"),
                !.tracking_number = EditValue(r, "tracking_number"),
                !.date_requested = EditValue(r, "date_requested"),
                !.date_received = EditValue(r, "date_received"),
                !.uploader_name = EditValue(r, "uploader_name"),
                !.uploader_email = EditValue(r, "uploader_email")]

EditOutcome(idText, r) ==
    LET m == MatchIds(rows, idText)
        Rejected(s) == [status |-> s, rows |-> rows]
    IN
    IF ~r.xsrf THEN Rejected(403)
    ELSE IF Cardinality(m) # 1 THEN Rejected(500)
    ELSE IF EditLoop(r, 1) # 0 THEN Rejected(EditLoop(r, 1))
    ELSE LET id == CHOOSE i \in m : TRUE IN
         [status |-> 302,
          rows |-> [rows EXCEPT ![id] = EditedDoc(rows[id], r)]]

EditPost(idText, r) ==
    /\ LET o == EditOutcome(idText, r) IN
       /\ rows' = o.rows
       /\ last' = [op |-> "EditPost", id |-> idText, req |-> r,
                   auth |-> authorized, status |-> o.status]
    /\ UNCHANGED <<dirs, files, authorized, today, assigned, deleted>>

\* ------------------------------------------------------ DeleteHandler.post
DeleteOutcome(r) ==
    LET Rejected(s) == [status |-> s, rows |-> rows, dirs |-> dirs,
                        files |-> files, id |-> 0]
    IN
    IF ~r.xsrf THEN Rejected(403)
    ELSE IF ~authorized THEN Rejected(400)
    \* self.set_stataus(401) is not a method of RequestHandler: AttributeError
    ELSE IF ~Given(r.doc_id) \/ Arg(r.doc_id) = <<>> THEN Rejected(500)
    ELSE
      LET path == Split(Arg(r.doc_id), "/")
          m == MatchIds(rows, Arg(r.doc_id))
      IN
      IF ~RmtreeOk(dirs, path) THEN Rejected(500)
      ELSE IF Cardinality(m) # 1
           THEN [status |-> 500, rows |-> rows,
                 dirs |-> RmtreeDirs(dirs, path),
                 files |-> RmtreeFiles(dirs, files, path), id |-> 0]
           ELSE [status |-> 200,
                 rows |-> Remove(rows, CHOOSE i \in m : TRUE),
                 dirs |-> RmtreeDirs(dirs, path),
                 files |-> RmtreeFiles(dirs, files, path),
                 id |-> CHOOSE i \in m : TRUE]

DeletePost(r) ==
    /\ LET o == DeleteOutcome(r) IN
       /\ rows' = o.rows
       /\ dirs' = o.dirs
       /\ files' = o.files
       /\ last' = [op |-> "DeletePost", req |-> r, auth |-> authorized,
                   status |-> o.status, id |-> o.id]
       /\ deleted' = IF o.status = 200 THEN deleted \cup {o.id} ELSE deleted
    /\ UNCHANGED <<authorized, today, assigned>>

\* ------------------------------------------------------ SearchHandler.get
\* int(offset)
IntOk(s) == AllDigits(s) \/ (Len(s) > 1 /\ s[1] = "-" /\ AllDigits(Tail(s)))

PyInt(s) == IF s[1] = "-" THEN 0 - IntOf(Tail(s)) ELSE IntOf(s)

Matches(doc, q) ==
    \/ LikeContains(doc.doc_title, q)
    \/ LikeContains(doc.doc_description, q)
    \/ LikeContains(doc.source_org, q)
    \/ LikeContains(doc.uploader_name, q)

\* the rows the query selects: all of them when query_arg is absent or empty
Selected(r, query) ==
    IF Given(query) /\ Arg(query) # <<>>
    THEN {i \in DOMAIN r : Matches(r[i], Arg(query))}
    ELSE DOMAIN r

\* order_by(desc(date_uploaded)): every listing of the ids with later upload
\* dates first; the order among equal dates is not specified
Orderings(r, ids) ==
    {s \in [1..Cardinality(ids) -> ids] :
        /\ \A i, j \in 1..Cardinality(ids) : i # j => s[i] # s[j]
        /\ \A i, j \in 1..Cardinality(ids) :
              i < j => r[s[i]].date_uploaded >= r[s[j]].date_uploaded}

\* query.offset(offset).limit(20); SQLite reads a negative OFFSET as 0
Page(order, offset) ==
    LET from == (IF offset < 0 THEN 0 ELSE offset) + 1
        to == IF from + PageLimit - 1 < Len(order)
              THEN from + PageLimit - 1 ELSE Len(order)
    IN IF from > to THEN <<>> ELSE SubSeq(order, from, to)

SearchGet(query, offset) ==
    /\ IF Given(offset) /\ Arg(offset) # <<>> /\ ~IntOk(Arg(offset))
       THEN last' = [op |-> "SearchGet", query |-> query, offset |-> offset,
                     status |-> 500, count |-> 0, docs |-> <<>>]
       ELSE \E order \in Orderings(rows, Selected(rows, query)) :
              last' = [op |-> "SearchGet", query |-> query,
                       offset |-> offset, status |-> 200,
                       count |-> Cardinality(Selected(rows, query)),
                       docs |-> Page(order,
                                     IF Given(offset) /\ Arg(offset) # <<>>
                                     THEN PyInt(Arg(offset)) ELSE 0)]
    /\ UNCHANGED <<rows, dirs, files, authorized, today, assigned, deleted>>

\* -------------------------------------------------------- AuthHandler.get
\* username, password = auth_decoded.split(':', 2): at most three pieces,
\* and the unpacking needs exactly two
SplitMax2(s) ==
    LET parts == Split(s, ":")
    IN IF Len(parts) <= 3 THEN parts
       ELSE <<parts[1], parts[2],
              SubSeq(s, Len(parts[1]) + Len(parts[2]) + 3, Len(s))>>

AuthOutcome(r) ==
    IF Given(r.log_out) /\ Arg(r.log_out) # <<>>
    THEN [status |-> 302, authorized |-> FALSE, challenge |-> FALSE]
    ELSE IF ~Given(r.header)
    THEN [status |-> 401, authorized |-> authorized, challenge |-> TRUE]
    ELSE IF Len(SplitMax2(Arg(r.header))) # 2
    THEN [status |-> 500, authorized |-> authorized, challenge |-> FALSE]
    ELSE IF SplitMax2(Arg(r.header))[2] = Password
    THEN [status |-> 302, authorized |-> TRUE, challenge |-> FALSE]
    ELSE [status |-> 401, authorized |-> authorized, challenge |-> TRUE]

AuthGet(r) ==
    /\ LET o == AuthOutcome(r) IN
       /\ authorized' = o.authorized
       /\ last' = [op |-> "AuthGet", req |-> r, status |-> o.status,
                   challenge |-> o.challenge]
    /\ UNCHANGED <<rows, dirs, files, today, assigned, deleted>>

\* ------------------------------------------------- datetime.now().date()
Tick ==
    /\ today < MaxDate
    /\ today' = today + 1
    /\ last' = [op |-> "Tick", status |-> 0]
    /\ UNCHANGED <<rows, dirs, files, authorized, assigned, deleted>>

\* ------------------------------------------------------------------ Next
Next ==
    \/ \E r \in AddRequests : AddPost(r)
    \/ \E t \in UrlIds : ViewGet(t)
    \/ \E t \in UrlIds, f \in DownloadNames : DownloadGet(t, f)
    \/ \E t \in UrlIds : EditGet(t)
    \/ \E t \in UrlIds, r \in EditRequests : EditPost(t, r)
    \/ \E r \in DeleteRequests : DeletePost(r)
    \/ \E r \in SearchRequests : SearchGet(r.query, r.offset)
    \/ \E r \in AuthRequests : AuthGet(r)
    \/ Tick

Spec == Init /\ [][Next]_vars

\* the requests that write: the catalog, the store and the cookie change
\* through these alone
NextWrite ==
    \/ \E r \in AddRequests : AddPost(r)
    \/ \E t \in UrlIds, r \in EditRequests : EditPost(t, r)
    \/ \E r \in DeleteRequests : DeletePost(r)
    \/ \E r \in AuthRequests : AuthGet(r)
    \/ Tick

SpecWrite == Init /\ [][NextWrite]_vars

\* ---------------------------------------------------------------- claims
ClientError(status) == status \in 400..499

StoreUnchanged == rows' = rows /\ dirs' = dirs /\ files' = files

\* the names of the directories directly below stored_docs_path
DirNames(d) == {p[1] : p \in {q \in d : Len(q) = 1}}

\* the regular files directly inside the directory named name
FilesIn(f, name) == {p \in DOMAIN f : Len(p) = 2 /\ p[1] = name}

\* term occurs in text, comparing letters without regard to ASCII case
Contains(text, term) ==
    /\ text # None
    /\ \E k \in 0..(Len(text) - Len(term)) :
          \A i \in 1..Len(term) : Fold(text[k + i]) = Fold(term[i])

\* a POST /edit that gives no other ground for refusing it: it passes the
\* XSRF check, names an existing document and carries every form field, the
\* dates blank or in the documented format
EditInOrder(l) ==
    l.op = "EditPost"
        => (l.req.xsrf /\ MatchIds(rows, l.id) # {} /\ EditLoop(l.req, 1) = 0)

\* C1: a GET /edit/{id}, POST /edit/{id} or POST /delete made without the
\* 'authorized' cookie is answered with a client-error status and leaves the
\* catalog rows and the storage directories as they were (stated for edits
\* that are otherwise in order, so that the missing cookie is the one ground
\* for refusing the request).
C1_UnauthorizedRejected ==
    [][(last'.op \in {"EditGet", "EditPost", "DeletePost"} /\ ~authorized
          /\ EditInOrder(last'))
         => (ClientError(last'.status) /\ StoreUnchanged)]_vars

\* C2: once an authorized POST /delete for an existing document d has
\* completed, the row d and the directory d are gone, and every later
\* GET /view/d and GET /file/d/{filename} is answered 404 not-found, until an
\* add creates d again.
C2_DeletedStaysNotFound ==
    \A d \in deleted :
        /\ d \notin DOMAIN rows
        /\ Str(d) \notin DirNames(dirs)
        /\ (last.op \in {"ViewGet", "DownloadGet"} /\ last.id = Str(d))
              => last.status = 404

\* C3: a POST /add that carries doc_title, doc_description, source_org and
\* an uploaded file (and passes the XSRF check, with dates blank or in the
\* documented format) gets an id that no row had, adds exactly one row with
\* that id whose date_uploaded is today and whose filename is the upload's
\* name, and makes GET /file/{id}/{filename} return the uploaded bytes.
CarriesRequired(r) ==
    /\ r.xsrf
    /\ Given(r.doc_title) /\ Given(r.doc_description) /\ Given(r.source_org)
    /\ r.file # <<>>
    /\ ~DateArgBad(r.date_requested) /\ ~DateArgBad(r.date_received)

C3_AddCreatesRetrievable ==
    [][(last'.op = "AddPost" /\ CarriesRequired(last'.req))
         => /\ last'.id \notin DOMAIN rows
            /\ DOMAIN rows' = DOMAIN rows \cup {last'.id}
            /\ \A i \in DOMAIN rows : rows'[i] = rows[i]
            /\ rows'[last'.id].date_uploaded = today
            /\ rows'[last'.id].filename = last'.req.file[1].filename
            /\ LET o == DownloadOutcome(dirs', files', Str(last'.id),
                                        last'.req.file[1].filename)
               IN o.status = 200 /\ o.body = <<last'.req.file[1].body>>]_vars

\* C4: in every state reached by completed add, edit and delete requests,
\* failed ones included, the catalog row ids are exactly the names of the
\* storage directories, and each such directory holds exactly one file,
\* named by the row's filename.
C4_RowsMatchDirectories ==
    /\ {Str(i) : i \in DOMAIN rows} = DirNames(dirs)
    /\ \A i \in DOMAIN rows :
          FilesIn(files, Str(i)) = {<<Str(i), rows[i].filename>>}

\* C5: the id an add assigns differs from every id an earlier add assigned,
\* also when the earlier document has been deleted since.
C5_IdNeverReused ==
    [][(last'.op = "AddPost" /\ last'.id # 0) => last'.id \notin assigned]_vars

\* C6: a search that is answered lists matching records only, latest upload
\* first: all records when there is no query, else the records whose title,
\* description, source org or uploader name contains the term without regard
\* to case; the count is the number of matching records whatever the offset,
\* and the page is the at most 20 of them that start at the offset.
TermMatches(doc, term) ==
    \/ Contains(doc.doc_title, term)
    \/ Contains(doc.doc_description, term)
    \/ Contains(doc.source_org, term)
    \/ Contains(doc.uploader_name, term)

Matching(query) ==
    IF Given(query) /\ Arg(query) # <<>>
    THEN {i \in DOMAIN rows : TermMatches(rows[i], Arg(query))}
    ELSE DOMAIN rows

OffsetOf(offset) ==
    IF Given(offset) /\ Arg(offset) # <<>> THEN PyInt(Arg(offset)) ELSE 0

C6_SearchResults ==
    (last.op = "SearchGet" /\ last.status = 200) =>
        LET want == Matching(last.query)
            rest == Cardinality(want) - OffsetOf(last.offset)
        IN /\ last.count = Cardinality(want)
           /\ \A k \in 1..Len(last.docs) : last.docs[k] \in want
           /\ \A j, k \in 1..Len(last.docs) :
                 j < k => /\ last.docs[j] # last.docs[k]
                          /\ rows[last.docs[j]].date_uploaded
                               >= rows[last.docs[k]].date_uploaded
           /\ Len(last.docs) = IF rest < 0 THEN 0
                               ELSE IF rest > PageLimit THEN PageLimit
                               ELSE rest

\* C7: the 'authorized' cookie is set only by a GET /auth/ whose credentials
\* carry the configured password; a GET /auth/ without credentials or with
\* another password is answered 401 with a Basic challenge and sets nothing;
\* ?log_out=1 clears the cookie; and while the cookie is not set every edit
\* and delete request is rejected as unauthorized.
IsLogOut(r) == Given(r.log_out) /\ Arg(r.log_out) # <<>>

\* the password of Basic credentials: everything after the first colon
CredentialsPassword(c) ==
    LET k == CHOOSE i \in 1..Len(c) :
                 c[i] = ":" /\ \A j \in 1..(i - 1) : c[j] # ":"
    IN SubSeq(c, k + 1, Len(c))

HasPassword(r) ==
    /\ Given(r.header)
    /\ \E i \in 1..Len(Arg(r.header)) : Arg(r.header)[i] = ":"
    /\ CredentialsPassword(Arg(r.header)) = Password

C7_MarkerLifecycle ==
    [][/\ (authorized' /\ ~authorized)
            => (last'.op = "AuthGet" /\ HasPassword(last'.req))
       /\ (last'.op = "AuthGet" /\ ~IsLogOut(last'.req)
             /\ ~HasPassword(last'.req))
            => (last'.status = 401 /\ last'.challenge
                /\ authorized' = authorized)
       /\ (last'.op = "AuthGet" /\ IsLogOut(last'.req)) => ~authorized'
       /\ (last'.op \in {"EditGet", "EditPost", "DeletePost"} /\ ~authorized
             /\ EditInOrder(last'))
            => ClientError(last'.status)]_vars

\* C8: POST /edit/d changes metadata only: the row keeps its id, filename
\* and date_uploaded, no row is added or removed, every other row is as it
\* was, and the storage directories and files are untouched.
C8_EditFrame ==
    [][last'.op = "EditPost"
         => /\ dirs' = dirs
            /\ files' = files
            /\ DOMAIN rows' = DOMAIN rows
            /\ \A i \in DOMAIN rows :
                  /\ rows'[i].filename = rows[i].filename
                  /\ rows'[i].date_uploaded = rows[i].date_uploaded
                  /\ ~SqlIdEq(i, last'.id) => rows'[i] = rows[i]]_vars

\* an accepted edit, on a later day than the upload, of a stored document
\* that is not the only one
C8_Witness ==
    /\ last.op = "EditPost"
    /\ last.status = 302
    /\ Cardinality(DOMAIN rows) >= 2
    /\ \E d \in DOMAIN rows :
          /\ SqlIdEq(d, last.id)
          /\ rows[d].doc_title = <<"B">>
          /\ rows[d].date_received = "2021-12-31"
          /\ rows[d].date_uploaded < today
          /\ <<Str(d), rows[d].filename>> \in DOMAIN files
          /\ \E e \in DOMAIN rows : rows[e].doc_title # <<"B">>

\* C9: GET /file/{id}/{filename} for a path that is not in the store is
\* answered 404 and ends without opening the file.
C9_MissingFileIs404 ==
    (last.op = "DownloadGet" /\ last.set404)
        => (last.status = 404 /\ ~last.opened)

\* C10: a POST /add without doc_title, doc_description, source_org or the
\* uploaded file, and an authorized POST /delete without doc_id, is answered
\* with a 4xx status and changes neither the catalog nor the store.
C10_MissingInputRejected ==
    [][(\/ /\ last'.op = "AddPost"
           /\ \/ ~Given(last'.req.doc_title)
              \/ ~Given(last'.req.doc_description)
              \/ ~Given(last'.req.source_org)
              \/ last'.req.file = <<>>
        \/ /\ last'.op = "DeletePost"
           /\ authorized
           /\ ~Given(last'.req.doc_id))
         => (ClientError(last'.status) /\ StoreUnchanged)]_vars

====
